---------------------------- MODULE Spec2Model ----------------------------
(***************************************************************************)
(* A model of cms_detector/__init__.py: URL normalisation                  *)
(* (get_corrected_url), retrieval with fallback (get_remote_content,       *)
(* mock_requests_object) and WordPress detection (wp_details).             *)
(*                                                                         *)
(* Python str values are TLA+ strings; Len, SubSeq and \o work on them     *)
(* character by character, so prefixes, suffixes, substrings and the link  *)
(* regular expression are computed on the characters as the code does.     *)
(***************************************************************************)
EXTENDS Integers, Sequences, FiniteSets, TLC

VARIABLES
    pc,          \* position of the running call
    hashseed,    \* the interpreter process's string hash seed
    site,        \* what the remote server answers (environment)
    runs,        \* number of completed wp_details calls
    target_url,  \* wp_details: local target_url after line 93
    net,         \* what happened inside the try block of get_remote_content
    response,    \* wp_details: local response (line 94)
    result,      \* the value wp_details returned
    prev,        \* the previous call: its response and its returned value
    url_in,      \* get_corrected_url: argument url
    fix_slash,   \* get_corrected_url: argument fix_slash
    url_once,    \* get_corrected_url(url_in, fix_slash)
    url_twice    \* get_corrected_url(url_once, fix_slash)

vars == <<pc, hashseed, site, runs, target_url, net, response, result, prev,
          url_in, fix_slash, url_once, url_twice>>

----------------------------------------------------------------------------
(* Bounds of the model *)

\* wp_details calls in one behaviour
MaxRuns == 2
\* markup fragments concatenated into one page body
MaxFrags == 2
\* distinct string hash seeds (PYTHONHASHSEED values) of interpreter processes
NumSeeds == 2
\* pieces concatenated into one input of get_corrected_url
MaxUrlParts == 3

(* Program constants *)

\* mock_requests_object: response.status_code = 9999
SentinelStatus == 9999
\* wp_details: if response.status_code < 400
ErrorStatus == 400

----------------------------------------------------------------------------
(* Python values *)

None == [kind |-> "None"]
Str(s) == [kind |-> "str", s |-> s]

(* str methods, on characters *)

\* s[i-1:j] of Python with i >= 1: the characters i..j of s that exist
slice(s, i, j) ==
    IF i > j \/ i > Len(s) THEN ""
    ELSE SubSeq(s, i, IF j > Len(s) THEN Len(s) ELSE j)

startswith(s, p) == Len(s) >= Len(p) /\ slice(s, 1, Len(p)) = p

endswith(s, p) == Len(s) >= Len(p) /\ slice(s, Len(s) - Len(p) + 1, Len(s)) = p

\* p in s
contains(s, p) ==
    \E i \in 1..(Len(s) - Len(p) + 1) : slice(s, i, i + Len(p) - 1) = p

\* s.find(p, from): least index >= from where p occurs, 0 when there is none
find(s, p, from) ==
    LET hits == {i \in from..(Len(s) - Len(p) + 1) : slice(s, i, i + Len(p) - 1) = p}
    IN  IF hits = {} THEN 0 ELSE CHOOSE i \in hits : \A j \in hits : i <= j

\* s.rfind(p): greatest index where p occurs, 0 when there is none
rfind(s, p) ==
    LET hits == {i \in 1..(Len(s) - Len(p) + 1) : slice(s, i, i + Len(p) - 1) = p}
    IN  IF hits = {} THEN 0 ELSE CHOOSE i \in hits : \A j \in hits : i >= j

\* s.split("/")[0]
split_first(s) ==
    LET k == find(s, "/", 1)
    IN  IF k = 0 THEN s ELSE slice(s, 1, k - 1)

----------------------------------------------------------------------------
(* get_corrected_url *)

get_corrected_url_http_only(url, sep) ==
    LET u == IF ~startswith(url, "http://") THEN "http://" \o url ELSE url
    IN  IF ~endswith(u, sep) THEN u \o sep ELSE u

get_corrected_url_always_append(url, sep) ==
    LET u == IF ~startswith(url, "http://") /\ ~startswith(url, "https://")
             THEN "http://" \o url ELSE url
    IN  IF sep # "" THEN u \o sep ELSE u

get_corrected_url(url, sep) ==
    LET u == IF ~startswith(url, "http://") /\ ~startswith(url, "https://")
             THEN "http://" \o url ELSE url
    IN  IF ~endswith(u, sep) THEN u \o sep ELSE u


----------------------------------------------------------------------------
(* link_regex, lines 97-100: "http", an optional "s", ":", one or more    *)
(* of "/" and "\", then any number of repetitions of one character of the *)
(* class followed by an optional "#!"; compiled with re.DOTALL             *)

Lower == {"a","b","c","d","e","f","g","h","i","j","k","l","m",
          "n","o","p","q","r","s","t","u","v","w","x","y","z"}
Upper == {"A","B","C","D","E","F","G","H","I","J","K","L","M",
          "N","O","P","Q","R","S","T","U","V","W","X","Y","Z"}
Digit == {"0","1","2","3","4","5","6","7","8","9"}

\* The character class on ASCII: word characters, digits, the listed
\* punctuation, and the range from "+" to "=" (which adds "," "." "<")
LinkChars ==
    Lower \cup Upper \cup Digit \cup
    {"_", ":", "#", "@", "%", "/", ";", "$", "(", ")", "~", "?",
     "+", ",", "-", ".", "<", "=", "\\", "&"}

char(s, i) == slice(s, i, i)

\* The least of the positions where a run stops, the position after the
\* text when it stops nowhere
first_stop(text, stops) ==
    IF stops = {} THEN Len(text) + 1
    ELSE CHOOSE j \in stops : \A k \in stops : j <= k

\* One or more of "/" and "\" from position i: the position after the run
slashes_end(text, i) ==
    first_stop(text, {j \in i..Len(text) : char(text, j) \notin {"/", "\\"}})

\* The repetitions from position i, greedy: the position after the last one.
\* A repetition takes one character of the class and then "#!" when it
\* follows, so "!" is taken exactly after a "#" that follows a character
\* of the class taken from i on
tail_end(text, i) ==
    LET taken(j) ==
            \/ char(text, j) \in LinkChars
            \/ /\ char(text, j) = "!"
               /\ j - 2 >= i
               /\ char(text, j - 1) = "#"
               /\ char(text, j - 2) \in LinkChars
    IN  first_stop(text, {j \in i..Len(text) : ~taken(j)})

\* The position after a match of link_regex starting at i, 0 when none starts there
match_end(text, i) ==
    LET c == IF slice(text, i, i + 4) = "https" /\ char(text, i + 5) = ":" THEN i + 6
             ELSE IF slice(text, i, i + 3) = "http" /\ char(text, i + 4) = ":" THEN i + 5
             ELSE 0
    IN  IF c = 0 \/ slashes_end(text, c) = c THEN 0
        ELSE tail_end(text, slashes_end(text, c))

\* re.findall(link_regex, text) from position i: leftmost, non-overlapping
\* matches (group 0 of each); a match can start only where "http" does
RECURSIVE findall(_, _)
findall(text, i) ==
    LET h == find(text, "http", i)
    IN  IF h = 0 THEN <<>>
        ELSE LET e == match_end(text, h)
             IN  IF e = 0 THEN findall(text, h + 1)
                 ELSE <<slice(text, h, e - 1)>> \o findall(text, e)

Range(q) == {q[i] : i \in 1..Len(q)}

\* line 101: all_link = set([link[0] for link in re.findall(link_regex, response.text)])
all_link_of(text) == Range(findall(text, 1))

----------------------------------------------------------------------------
(* Signal classification, lines 102-104 and 129-130 *)

wp_found_no_json(all_link) ==
    \/ {meta \in all_link : contains(meta, "wp-content")} # {}
    \/ {meta \in all_link : contains(meta, "wp-includes")} # {}

\* any([wp_content, wp_includes, wp_json])
wp_found_of(all_link) ==
    \/ {meta \in all_link : contains(meta, "wp-content")} # {}
    \/ {meta \in all_link : contains(meta, "wp-includes")} # {}
    \/ {meta \in all_link : contains(meta, "wp-json")} # {}

----------------------------------------------------------------------------
(* Entity enumeration, lines 106-124 *)

\* re.search(marker + "(.*)/", link): group(1) of the leftmost match, the
\* greedy (.*) running to the last "/" of the link; None when nothing matches
search_group1(marker, link) ==
    LET i == find(link, marker, 1)
        last == rfind(link, "/")
    IN  IF i = 0 \/ last < i + Len(marker) THEN None
        ELSE Str(slice(link, i + Len(marker), last - 1))

names_no_split(marker, all_link) ==
    LET found == {search_group1(marker, link) :
                     link \in {l \in all_link : contains(l, marker)}}
    IN  {m.s : m \in {x \in found : x # None}}

\* set([m.group(1).split("/")[0] for m in matches if m]) over the links
\* that contain the marker
names_of(marker, all_link) ==
    LET found == {search_group1(marker, link) :
                     link \in {l \in all_link : contains(l, marker)}}
    IN  {split_first(m.s) : m \in {x \in found : x # None}}

\* A fixed enumeration of a finite set
RECURSIVE Enum(_)
Enum(S) ==
    IF S = {} THEN <<>>
    ELSE LET x == CHOOSE y \in S : TRUE IN <<x>> \o Enum(S \ {x})

\* list(set(...)): the iteration order of a set of str depends on the
\* process's hash seed and on nothing else the program controls
list_of_set(S, seed) ==
    LET e == Enum(S)
        n == Len(e)
    IN  [i \in 1..n |-> e[((i - 1 + seed) % n) + 1]]

----------------------------------------------------------------------------
(* Version extraction, lines 131-134: BeautifulSoup(...).find("meta",      *)
(* attrs={"name": "generator"}) and Tag.get("content"), for markup whose   *)
(* tags are written <meta key="value" ...>                                 *)

\* The attribute text of the tag opening at i: from after "<meta" to its ">"
tag_attrs(text, i) ==
    LET close == find(text, ">", i)
    IN  slice(text, i + 5, IF close = 0 THEN Len(text) ELSE close - 1)

\* Tag.get(key): the attribute's value, None when the tag has no such attribute
tag_get(attrs, key) ==
    LET k == find(attrs, " " \o key \o "=\"", 1)
        from == k + Len(key) + 3
        q == find(attrs, "\"", from)
    IN  IF k = 0 \/ q = 0 THEN None ELSE Str(slice(attrs, from, q - 1))

\* soup.find("meta", attrs={"name": "generator"}): the first such tag in
\* document order, None when there is none
RECURSIVE find_generator(_, _)
find_generator(text, from) ==
    LET i == find(text, "<meta ", from)
    IN  IF i = 0 THEN None
        ELSE IF tag_get(tag_attrs(text, i), "name") = Str("generator")
             THEN Str(tag_attrs(text, i))
             ELSE find_generator(text, i + 1)

wp_version_ungated(wp_found, text) ==
    LET wp_version_tag == find_generator(text, 1)
    IN  IF wp_version_tag # None THEN tag_get(wp_version_tag.s, "content") ELSE Str("")

\* lines 127-134
wp_version_of(wp_found, text) ==
    IF wp_found
    THEN LET wp_version_tag == find_generator(text, 1)
         IN  IF wp_version_tag # None
             THEN tag_get(wp_version_tag.s, "content")
             ELSE Str("")
    ELSE Str("")

----------------------------------------------------------------------------
(* The returned dict, lines 136-141 *)

return_dict_gated(wp_found, wp_version, themes, plugins) ==
    [kind |-> "dict", is_wp_installed |-> wp_found, wp_version |-> wp_version,
     themes |-> IF wp_found THEN themes ELSE <<>>,
     plugins |-> IF wp_found THEN plugins ELSE <<>>]

return_dict(wp_found, wp_version, themes, plugins) ==
    [kind |-> "dict", is_wp_installed |-> wp_found, wp_version |-> wp_version,
     themes |-> themes, plugins |-> plugins]

\* wp_details from line 96 on: the report for a response, None (the implicit
\* return of a function that falls off its end) when status_code >= 400
detect(resp, seed) ==
    IF resp.status_code < ErrorStatus
    THEN LET all_link == all_link_of(resp.text)
             wp_found == wp_found_of(all_link)
         IN  return_dict(wp_found,
                         wp_version_of(wp_found, resp.text),
                         list_of_set(names_of("/themes/", all_link), seed),
                         list_of_set(names_of("/plugins/", all_link), seed))
    ELSE None

----------------------------------------------------------------------------
(* mock_requests_object and get_remote_content *)

mock_requests_object_404(url) ==
    [status_code |-> 404, text |-> "", url |-> url]

\* lines 56-62
mock_requests_object(url) ==
    [status_code |-> SentinelStatus, text |-> "", url |-> url]

\* line 71: a bare "except:" catches every exception
except_catches(exc) == TRUE

----------------------------------------------------------------------------
(* The inputs of the model *)

Seeds == 1..NumSeeds

Fragments ==
    { "<a href=\"http://x.io/wp-content/plugins/akismet/js/a.js\">",
      "<link href='https://x.io/wp-content/themes/astra/s.css'>",
      "<a href='https:\\\\x.io\\wp-includes/themes/astra'>",
      "<meta name=\"generator\" content=\"WordPress 6.2\">",
      "<meta name=\"generator\">",
      "<meta name=\"viewport\" content=\"w\">",
      "http://x.io/wp-json/",
      "http://c.io/plugins/jetpack/j.js",
      "http://c.io/plugins/akismet/b.js" }

\* Page bodies: at most n fragments, one after the other
RECURSIVE Bodies(_)
Bodies(n) ==
    IF n = 0 THEN {""}
    ELSE Bodies(n - 1) \cup {b \o f : b \in Bodies(n - 1), f \in Fragments}

\* What a server answers: any body with status 200; a body of at most one
\* fragment with a status on either side of the gate of line 96
Sites ==
    [status_code : {200}, text : Bodies(MaxFrags)] \cup
    [status_code : {ErrorStatus - 1, ErrorStatus, 404}, text : Bodies(1)]

\* Arguments of wp_details: spellings of one address, with and without the
\* scheme and the final slash (get_corrected_url gets every other input
\* under SpecUrl)
Urls == {"x.io", "http://x.io", "x.io/", "http://x.io/"}

\* Exceptions raised inside the try block, and the statement that raised
Raised ==
    { [at |-> "Session", exc |-> "KeyboardInterrupt"],
      [at |-> "get", exc |-> "ConnectionError"] }

UrlParts == {"http://", "https://", "http:/", "x.io", "/", "a", "?"}

RECURSIVE UrlInputs(_)
UrlInputs(n) ==
    IF n = 0 THEN {""}
    ELSE UrlInputs(n - 1) \cup {u \o q : u \in UrlInputs(n - 1), q \in UrlParts}

Separators == {"/", "", "//", "a", "/a", "http://"}

----------------------------------------------------------------------------
(* wp_details, one call after another *)

Init ==
    /\ pc = "idle"
    /\ hashseed \in Seeds
    /\ site \in Sites
    /\ runs = 0
    /\ target_url = ""
    /\ net = [kind |-> "none"]
    /\ response = None
    /\ result = None
    /\ prev = None
    /\ url_in = ""
    /\ fix_slash = "/"
    /\ url_once = ""
    /\ url_twice = ""

url_vars == <<url_in, fix_slash, url_once, url_twice>>

\* wp_details(target_url) is called; line 93
Call ==
    /\ pc = "idle"
    /\ runs < MaxRuns
    /\ \E u \in Urls : target_url' = get_corrected_url(u, "/")
    /\ net' = [kind |-> "none"]
    /\ response' = None
    /\ result' = None
    /\ pc' = "fetch"
    /\ UNCHANGED <<hashseed, site, runs, prev, url_vars>>

\* line 94, get_remote_content lines 68-70: the GET returns the server's response
GetRemoteContentReturns ==
    /\ pc = "fetch"
    /\ net' = [kind |-> "ok",
               response |-> [status_code |-> site.status_code,
                             text |-> site.text, url |-> target_url]]
    /\ response' = net'.response
    /\ pc' = "detect"
    /\ UNCHANGED <<hashseed, site, runs, target_url, result, prev, url_vars>>

\* line 94, get_remote_content lines 68-72: a statement of the try block raises
GetRemoteContentRaises ==
    /\ pc = "fetch"
    /\ \E e \in Raised :
          /\ net' = [kind |-> "raise", at |-> e.at, exc |-> e.exc]
          /\ IF except_catches(e.exc)
             THEN /\ response' = mock_requests_object(target_url)
                  /\ pc' = "detect"
             ELSE /\ response' = response
                  /\ pc' = "raised"
    /\ UNCHANGED <<hashseed, site, runs, target_url, result, prev, url_vars>>

\* lines 96-141
Detect ==
    /\ pc = "detect"
    /\ result' = detect(response, hashseed)
    /\ pc' = "done"
    /\ UNCHANGED <<hashseed, site, runs, target_url, net, response, prev, url_vars>>

\* The caller has the returned value; the call is over
Return ==
    /\ pc = "done"
    /\ prev' = [kind |-> "call", response |-> response, result |-> result]
    /\ runs' = runs + 1
    /\ pc' = "idle"
    /\ UNCHANGED <<hashseed, site, target_url, net, response, result, url_vars>>

\* The next call runs in a new interpreter process, with another hash seed
NewProcess ==
    /\ pc = "idle"
    /\ runs >= 1
    /\ runs < MaxRuns
    /\ hashseed' \in Seeds \ {hashseed}
    /\ UNCHANGED <<pc, site, runs, target_url, net, response, result, prev, url_vars>>

Next ==
    \/ Call
    \/ GetRemoteContentReturns
    \/ GetRemoteContentRaises
    \/ Detect
    \/ Return
    \/ NewProcess

Spec == Init /\ [][Next]_vars

----------------------------------------------------------------------------
(* get_corrected_url as a function of both its arguments *)

InitUrl ==
    /\ pc = "url0"
    /\ url_in \in UrlInputs(MaxUrlParts)
    /\ fix_slash \in Separators
    /\ url_once = ""
    /\ url_twice = ""
    /\ hashseed = 1
    /\ site = [status_code |-> 200, text |-> ""]
    /\ runs = 0
    /\ target_url = ""
    /\ net = [kind |-> "none"]
    /\ response = None
    /\ result = None
    /\ prev = None

wp_vars == <<hashseed, site, runs, target_url, net, response, result, prev>>

CorrectOnce ==
    /\ pc = "url0"
    /\ url_once' = get_corrected_url(url_in, fix_slash)
    /\ pc' = "url1"
    /\ UNCHANGED <<url_in, fix_slash, url_twice, wp_vars>>

CorrectTwice ==
    /\ pc = "url1"
    /\ url_twice' = get_corrected_url(url_once, fix_slash)
    /\ pc' = "url2"
    /\ UNCHANGED <<url_in, fix_slash, url_once, wp_vars>>

NextUrl == CorrectOnce \/ CorrectTwice

SpecUrl == InitUrl /\ [][NextUrl]_vars

----------------------------------------------------------------------------
(* Properties *)

returned == pc = "done"
reported == pc = "done" /\ result.kind = "dict"
fetched_ok == pc = "done" /\ response.status_code < 400

\* The links extracted from the body of the running call's response
links == all_link_of(response.text)

\* The path segment between the first occurrence of the marker in the link
\* and the next "/", None when the link has no such occurrence or no "/" after it
first_segment(link, marker) ==
    LET i == find(link, marker, 1)
        j == IF i = 0 THEN 0 ELSE find(link, "/", i + Len(marker))
    IN  IF j = 0 THEN None ELSE Str(slice(link, i + Len(marker), j - 1))

\* The text after the first occurrence of the marker in the link, up to the
\* next "/" or, when there is none, to the end of the link
segment_after(link, marker) ==
    LET i == find(link, marker, 1)
        j == find(link, "/", i + Len(marker))
    IN  slice(link, i + Len(marker), IF j = 0 THEN Len(link) ELSE j - 1)

Markers == {"/themes/", "/plugins/"}
listed(marker) ==
    Range(IF marker = "/themes/" THEN result.themes ELSE result.plugins)

EntityNames == {"akismet", "jetpack", "astra"}

\* C1: every call of wp_details ends without raising and returns a report;
\* when the fetch failed or the status is >= 400 the report is negative and
\* empty (is_installed false, version empty), not an absent value.
C1_AlwaysAReport ==
    /\ pc # "raised"
    /\ returned =>
          /\ result.kind = "dict"
          /\ response.status_code >= 400 =>
                /\ result.is_wp_installed = FALSE
                /\ result.wp_version = Str("")

\* C2: get_remote_content never raises: when a statement of its try block
\* raised, it returned status_code 9999, an empty text and the url it was
\* asked for; otherwise it returned the server's response unchanged.
C2_FetcherNeverRaises ==
    /\ pc # "raised"
    /\ pc \in {"detect", "done"} =>
          /\ net.kind \in {"raise", "ok"}
          /\ net.kind = "raise" =>
                response = [status_code |-> 9999, text |-> "", url |-> target_url]
          /\ net.kind = "ok" =>
                response = [status_code |-> site.status_code,
                            text |-> site.text, url |-> target_url]

C2_Witness ==
    /\ pc = "detect"
    /\ net.kind = "raise"
    /\ net.exc = "KeyboardInterrupt"
    /\ response.status_code = 9999

\* C3: get_corrected_url(u, s) starts with "http://" or "https://" and ends
\* with s; it is u with "http://" put in front exactly when u starts with
\* neither scheme, and with s put behind exactly when the string so far does
\* not end with s; nothing else of u is changed.
C3_SchemeAndSeparator ==
    pc \in {"url1", "url2"} =>
        /\ startswith(url_once, "http://") \/ startswith(url_once, "https://")
        /\ endswith(url_once, fix_slash)
        /\ \E pre \in {"", "http://"}, post \in {"", fix_slash} :
              /\ url_once = pre \o url_in \o post
              /\ (pre = "http://") <=>
                    ~(startswith(url_in, "http://") \/ startswith(url_in, "https://"))
              /\ (post # "") <=> ~endswith(pre \o url_in, fix_slash)

C3_Witness ==
    /\ pc = "url1"
    /\ url_in = "x.io"
    /\ fix_slash = "/"
    /\ url_once = "http://x.io/"

\* C4: get_corrected_url is idempotent: applied to its own result with the
\* same separator, it returns that result.
C4_Idempotent ==
    pc = "url2" => url_twice = url_once

C4_Witness ==
    /\ pc = "url2"
    /\ url_once # url_in
    /\ ~startswith(url_in, "http")
    /\ fix_slash = "//"

\* C5: for a response with status < 400, is_installed is true exactly when
\* some extracted link contains wp-content, wp-includes or wp-json.
C5_InstalledIffMarker ==
    fetched_ok =>
        /\ result.kind = "dict"
        /\ result.is_wp_installed <=>
              \E link \in links :
                  \/ contains(link, "wp-content")
                  \/ contains(link, "wp-includes")
                  \/ contains(link, "wp-json")

C5_Witness ==
    /\ reported
    /\ result.is_wp_installed
    /\ \A link \in links :
          ~contains(link, "wp-content") /\ ~contains(link, "wp-includes")

\* C6: in every returned report, is_installed = false implies that version
\* is the empty string, also when the body holds a generator meta tag.
C6_NotInstalledNoVersion ==
    (reported /\ ~result.is_wp_installed) => result.wp_version = Str("")

C6_Witness ==
    /\ reported
    /\ ~result.is_wp_installed
    /\ contains(response.text, "<meta name=\"generator\" content=\"WordPress 6.2\">")

\* C7: in every report with a positive detection signal, version is the
\* content attribute of the generator meta tag when the body has that tag,
\* and the empty text otherwise; with no generator tag, or one that has no
\* content attribute, version is the empty text, never an absent value.
C7_VersionNeverAbsent ==
    (reported /\ result.is_wp_installed) =>
        LET tag == find_generator(response.text, 1)
            content == IF tag = None THEN None ELSE tag_get(tag.s, "content")
        IN  /\ result.wp_version.kind = "str"
            /\ result.wp_version = IF content = None THEN Str("") ELSE content

\* C8 as first stated: for a response with status < 400, every link that
\* contains /plugins/<name>/ or /themes/<name>/ puts <name> in the report,
\* whether is_installed is true or false.
C8_AnyOccurrenceListed ==
    fetched_ok =>
        \A link \in links, marker \in Markers, name \in EntityNames :
            contains(link, marker \o name \o "/") => name \in listed(marker)

\* C8, amended: for a response with status < 400, themes and plugins are a
\* function of the extracted link set only, whether is_installed is true or
\* false: they hold exactly the names that follow, up to the next "/", the
\* first /themes/ (or /plugins/) of some extracted link.
C8_EnumerationUngated ==
    fetched_ok =>
        /\ result.kind = "dict"
        /\ \A marker \in Markers :
              listed(marker) =
                  {n.s : n \in {first_segment(link, marker) : link \in links} \ {None}}

C8_Witness ==
    /\ reported
    /\ ~result.is_wp_installed
    /\ result.plugins = <<"jetpack">>

\* C9: two calls that got an identical fetch result (same status code, body
\* and url) return identical reports.
C9_SameFetchSameReport ==
    (returned /\ prev # None /\ prev.response = response) => prev.result = result

\* C10 as first stated: for every extracted link that contains /themes/ (or
\* /plugins/), the path segment that follows the marker is a member of
\* themes (or plugins), and no name occurs twice in the result.
C10_EveryMarkerLinkNamed ==
    fetched_ok =>
        /\ \A link \in links, marker \in Markers :
              contains(link, marker) => segment_after(link, marker) \in listed(marker)
        /\ Len(result.themes) = Cardinality(Range(result.themes))
        /\ Len(result.plugins) = Cardinality(Range(result.plugins))

\* C10, amended: for every extracted link in which the first /themes/ (or
\* /plugins/) is followed, at once or later, by a "/", the path segment
\* between the two is a member of themes (or plugins); a link with no "/"
\* after the marker gives no name; no name occurs twice in the result.
C10_FirstSegmentNamed ==
    fetched_ok =>
        /\ result.kind = "dict"
        /\ \A link \in links, marker \in Markers :
              first_segment(link, marker) # None =>
                  first_segment(link, marker).s \in listed(marker)
        /\ \A marker \in Markers :
              (\A link \in links : first_segment(link, marker) = None) =>
                  listed(marker) = {}
        /\ Len(result.themes) = Cardinality(Range(result.themes))
        /\ Len(result.plugins) = Cardinality(Range(result.plugins))

C10_Witness ==
    /\ reported
    /\ Cardinality({link \in links :
                       first_segment(link, "/plugins/") = Str("akismet")}) = 2
    /\ result.plugins = <<"akismet">>

=============================================================================
